---- MODULE Spec2Model ----
(***************************************************************************)
(* rdt/transformers/categorical.py: CategoricalTransformer (frequency      *)
(* intervals over [0,1], optional anonymization through the module-level   *)
(* MAPS registry) and OneHotTransformer.                                   *)
(*                                                                         *)
(* Categories are the integers 1..NumCats; NaN is the null value.          *)
(* Floats are IEEE-754 doubles, modelled exactly (see "doubles" below).    *)
(***************************************************************************)
EXTENDS Integers, Sequences, FiniteSets, TLC

\* ------------------------------------------------------------------ bounds
\* SpecFit: rows of the fitted column, distinct non-null categories.
MaxFitLen == 6
NumCats == 2

\* np.nan (categorical.py line 167): the null category.
NaN == 0

Category == 1..NumCats
Value == Category \cup {NaN}

\* ----------------------------------------------------------------- doubles
\* A non-negative double x < 8 is the numeral <<l3, l2, l1, l0>> with
\*   x = (l3 * 2^45 + l2 * 2^30 + l1 * 2^15 + l0) * 2^-59,  l2, l1, l0 < 2^15.
\* Every double >= 2^-7 has its 53 significant bits at or above 2^-59, so
\* the numerals hold the doubles of this program exactly (its smallest are
\* std = prob / 6 >= 1 / (6 * rows), rows <= 21); results are rounded to 53
\* significant bits, to nearest, ties to even, as the FPU does.
Limb == 2^15

Carry(l) ==
    LET a1 == l[3] + (l[4] \div Limb)
        a2 == l[2] + (a1 \div Limb)
    IN  <<l[1] + (a2 \div Limb), a2 % Limb, a1 % Limb, l[4] % Limb>>

FromInt(n) == <<n * 2^14, 0, 0, 0>>

AddExact(x, y) == Carry(<<x[1] + y[1], x[2] + y[2], x[3] + y[3], x[4] + y[4]>>)

ScaleExact(x, n) == Carry(<<x[1] * n, x[2] * n, x[3] * n, x[4] * n>>)

FLess(x, y) ==
    \/ x[1] < y[1]
    \/ x[1] = y[1] /\ x[2] < y[2]
    \/ x[1] = y[1] /\ x[2] = y[2] /\ x[3] < y[3]
    \/ x[1] = y[1] /\ x[2] = y[2] /\ x[3] = y[3] /\ x[4] < y[4]

FLessEq(x, y) == x = y \/ FLess(x, y)

\* The number of low bits of the numeral x beyond its 53 significant ones.
DropBits(x) ==
    IF x[1] < 2^7 THEN 0
    ELSE CHOOSE q \in 0..24 : 2^(7 + q) <= x[1] /\ x[1] < 2^(8 + q)

\* x + rem/d units (0 <= rem < d), rounded to a double.
RoundNearestEven(x, rem, d) ==
    LET q    == DropBits(x)
        m    == 2^q
        low  == x[4] % m
        odd  == (x[4] \div m) % 2 = 1
        up   == IF q = 0
                THEN 2 * rem > d \/ (2 * rem = d /\ odd)
                ELSE \/ 2 * low > m
                     \/ 2 * low = m /\ (rem > 0 \/ odd)
    IN  Carry(<<x[1], x[2], x[3], x[4] - low + (IF up THEN m ELSE 0)>>)

\* x + y on doubles.
FAdd(x, y) == RoundNearestEven(AddExact(x, y), 0, 1)

\* x / d on doubles, d a small positive integer.
FDivInt(x, d) ==
    LET t2 == (x[1] % d) * Limb + x[2]
        t1 == (t2 % d) * Limb + x[3]
        t0 == (t1 % d) * Limb + x[4]
    IN  RoundNearestEven(<<x[1] \div d, t2 \div d, t1 \div d, t0 \div d>>, t0 % d, d)

Zero == FromInt(0)
One == FromInt(1)

\* ------------------------------------------------------- _get_intervals
RECURSIVE CountOf(_, _)
CountOf(s, v) ==
    IF s = <<>> THEN 0
    ELSE (IF Head(s) = v THEN 1 ELSE 0) + CountOf(Tail(s), v)

Range(s) == {s[i] : i \in DOMAIN s}

\* A faulty variant of Before, against which the properties are sensitive: the sort left at its default, ascending.
BeforeAscending(a, b, values) ==
    \/ CountOf(values, a) < CountOf(values, b)
    \/ /\ CountOf(values, a) = CountOf(values, b)
       /\ b # NaN
       /\ (a = NaN \/ a < b)

\* sort_values([name, 'index'], ascending=False): by count descending, then
\* by value descending; a NaN index goes last among equal counts.
Before(a, b, values) ==
    \/ CountOf(values, a) > CountOf(values, b)
    \/ /\ CountOf(values, a) = CountOf(values, b)
       /\ a # NaN
       /\ (b = NaN \/ a > b)

RECURSIVE SortValues(_, _)
SortValues(S, values) ==
    IF S = {} THEN <<>>
    ELSE LET top == CHOOSE a \in S : \A b \in S \ {a} : Before(a, b, values)
         IN  <<top>> \o SortValues(S \ {top}, values)

RECURSIVE Walk(_, _, _)
Walk(order, start, values) ==
    IF order = <<>> THEN <<>>
    ELSE LET value     == Head(order)
             frequency == CountOf(values, value)
             prob      == FDivInt(FromInt(frequency), Len(values))
             end       == FAdd(start, prob)
             mean      == FDivInt(FAdd(start, end), 2)
             std       == FDivInt(prob, 6)
         IN  <<[category |-> value, start |-> start, end |-> end,
                mean |-> mean, std |-> std]>>
             \o Walk(Tail(order), end, values)

\* The dict returned, in insertion order.
GetIntervals(values) == Walk(SortValues(Range(values), values), Zero, values)

\* ------------------------------------------------------------------- state
VARIABLES
    objs,      \* live transformer objects: handle -> attributes
    MAPS,      \* the module-level dict MAPS (line 8): id(self) -> mapping
    column,    \* the column at hand, given to fit
    ret,       \* the last call: what was called, on what, and what came back
    built,     \* handle -> the mapping that object's own last fit built
    writer     \* id -> the handle of the object whose fit wrote MAPS[id]

vars == <<objs, MAPS, column, ret, built, writer>>

\* A pandas column: its values and its dtype. In an object column the nulls
\* are the np.nan singleton; a float64 column boxes a fresh float per read.
Dtype == {"object", "float64"}

RECURSIVE SeqsUpTo(_, _)
SeqsUpTo(S, n) ==
    IF n = 0 THEN {<<>>}
    ELSE LET shorter == SeqsUpTo(S, n - 1)
         IN  shorter \cup {Append(s, v) : s \in {t \in shorter : Len(t) = n - 1}, v \in S}

\* The columns of up to n rows; the dtype of a column without nulls plays
\* no part in fit.
ColumnsUpTo(n) ==
    {[values |-> v, dtype |-> d] : v \in SeqsUpTo(Value, n), d \in Dtype} \
        {c \in [values : SeqsUpTo(Value, n), dtype : {"float64"}] : NaN \notin Range(c.values)}

\* A signed double, as transform returns and reverse_transform takes.
Num(neg, mag) == [neg |-> neg, mag |-> mag]
Pos(mag) == Num(FALSE, mag)

\* ret.src: for a reverse_transform fed with the output of the transform
\* called just before, the values that transform was given.
NoCall ==
    [op |-> "none", self |-> 0, raised |-> FALSE, input |-> <<>>, dtype |-> "object",
     out |-> <<>>, chained |-> FALSE, src |-> <<>>]

\* __init__ (and the class attributes intervals = None, mapping = None).
NewObject(anonymize, add_noise, clip, addr) ==
    [alive |-> TRUE, anonymize |-> anonymize, add_noise |-> add_noise, clip |-> clip,
     fitted |-> FALSE, intervals |-> <<>>, nanKey |-> FALSE, addr |-> addr]

\* --------------------------------------------------------------------- fit
\* data.unique(): the distinct values in order of first appearance.
RECURSIVE Uniques(_)
Uniques(s) ==
    IF s = <<>> THEN <<>>
    ELSE LET r    == Uniques(SubSeq(s, 1, Len(s) - 1))
             last == s[Len(s)]
         IN  IF last \in Range(r) THEN r ELSE Append(r, last)

\* dict(zip(uniques, fake_data))
ZipDict(uniques, fake_data) ==
    [v \in Range(uniques) |->
        fake_data[CHOOSE i \in DOMAIN uniques : uniques[i] = v]]

\* data.map(mapping): a value that is no key maps to NaN.
MapDict(values, mapping) ==
    [i \in DOMAIN values |->
        IF values[i] \in DOMAIN mapping THEN mapping[values[i]] ELSE NaN]

SetItem(dict, key, value) ==
    [k \in DOMAIN dict \cup {key} |-> IF k = key THEN value ELSE dict[k]]

\* fit(data), fake_data being what the faker returns, one call per unique.
Fit(self, col, fake_data) ==
    LET o       == objs[self]
        mapping == ZipDict(Uniques(col.values), fake_data)
        data    == IF o.anonymize THEN MapDict(col.values, mapping) ELSE col.values
    IN  /\ self \in DOMAIN objs /\ o.alive
        /\ Len(fake_data) = (IF o.anonymize THEN Len(Uniques(col.values)) ELSE 0)
        /\ MAPS' = IF o.anonymize THEN SetItem(MAPS, o.addr, mapping) ELSE MAPS
        /\ built' = IF o.anonymize THEN SetItem(built, self, mapping) ELSE built
        /\ writer' = IF o.anonymize THEN SetItem(writer, o.addr, self) ELSE writer
        /\ objs' = [objs EXCEPT ![self] =
                      [o EXCEPT !.fitted = TRUE,
                                !.intervals = GetIntervals(data),
                                !.nanKey = (~o.anonymize /\ col.dtype = "object")]]
        /\ ret' = [NoCall EXCEPT !.op = "fit", !.self = self, !.input = col.values,
                                 !.dtype = col.dtype, !.out = data]

\* The caller takes what the call returned (or its exception); the next
\* call starts after that.
Return ==
    /\ ret # NoCall
    /\ ret' = NoCall
    /\ UNCHANGED <<objs, MAPS, built, writer, column>>

\* ----------------------------------------------------------------- SpecFit
\* One transformer, anonymization off, fitted to every column of up to
\* MaxFitLen rows.
FitColumns == ColumnsUpTo(MaxFitLen)

InitFit ==
    /\ objs = (1 :> NewObject(FALSE, FALSE, FALSE, 1))
    /\ MAPS = <<>>
    /\ built = <<>>
    /\ writer = <<>>
    /\ column \in FitColumns
    /\ ret = NoCall

\* What the faker returns over one fit: a value of Fake per call.
NumFakes == 2
Fake == 1..NumFakes
FakerOutputs(o, col) ==
    IF o.anonymize THEN [1..Len(Uniques(col.values)) -> Fake] ELSE {<<>>}

FitCall ==
    /\ ret = NoCall
    /\ \E fake_data \in FakerOutputs(objs[1], column) : Fit(1, column, fake_data)
    /\ UNCHANGED column

NextFit == FitCall \/ Return

SpecFit == InitFit /\ [][NextFit]_vars

\* --------------------------------------------------------------- transform
\* self.intervals[category]: the position of the key, 0 for a KeyError. The
\* NaN key is found only by identity: the key fit stored and the value
\* apply passes must both be the np.nan singleton.
KeyIndex(o, category, dtype) ==
    LET hits == {i \in DOMAIN o.intervals :
                    /\ o.intervals[i].category = category
                    /\ category = NaN => (o.nanKey /\ dtype = "object")}
    IN  IF hits = {} THEN 0 ELSE CHOOSE i \in hits : TRUE

\* norm.rvs(mean, std): two of the doubles it can return, one a standard
\* deviation above the mean and one below zero.
Samples(mean, std) == <<Pos(FAdd(mean, std)), Num(TRUE, mean)>>

\* _get_value(category), sample being what norm.rvs returns.
GetValue(o, category, dtype, sample) ==
    LET i == KeyIndex(o, category, dtype)
    IN  IF o.add_noise THEN sample ELSE Pos(o.intervals[i].mean)

\* data == category, category being list(self.intervals.values())[0]: the
\* tuple (start, end, mean, std), which no category value equals.
EqualsFirst(o, value) == FALSE

\* The dtype of the column transform works on, after data.map.
WorkDtype(o, data, dtype) ==
    IF ~o.anonymize THEN dtype
    ELSE IF \A i \in DOMAIN data : data[i] = NaN THEN "float64" ELSE "object"

\* transform(data). cmpRaises: whether pandas refuses to compare a numeric
\* column with the tuple (builds differ); samples: what norm.rvs returns.
Transform(self, inp, cmpRaises, samples) ==
    LET o      == objs[self]
        noMap  == o.anonymize /\ o.addr \notin DOMAIN MAPS
        data   == IF o.anonymize /\ ~noMap THEN MapDict(inp.values, MAPS[o.addr])
                  ELSE inp.values
        dtype  == WorkDtype(o, data, inp.dtype)
        binary == o.fitted /\ Len(o.intervals) = 2
        raised == \/ noMap
                  \/ ~o.fitted
                  \/ binary /\ dtype = "float64" /\ cmpRaises
                  \/ ~binary /\ \E i \in DOMAIN data : KeyIndex(o, data[i], dtype) = 0
        out    == IF binary
                  THEN [i \in DOMAIN data |->
                          IF EqualsFirst(o, data[i]) THEN Pos(One) ELSE Pos(Zero)]
                  ELSE [i \in DOMAIN data |-> GetValue(o, data[i], dtype, samples[i])]
    IN  /\ self \in DOMAIN objs /\ o.alive
        /\ Len(samples) = Len(inp.values)
        /\ ret' = [NoCall EXCEPT !.op = "transform", !.self = self,
                                 !.input = inp.values, !.dtype = inp.dtype,
                                 !.raised = raised,
                                 !.out = IF raised THEN <<>> ELSE out]
        /\ UNCHANGED <<objs, MAPS, built, writer, column>>

\* ------------------------------------------------------- reverse_transform
\* _normalize: clip to [0, 1], or the fractional part with its sign dropped.
Normalize(o, x) ==
    IF o.clip
    THEN IF x.neg THEN Zero ELSE IF FLess(One, x.mag) THEN One ELSE x.mag
    ELSE <<x.mag[1] % 2^14, x.mag[2], x.mag[3], x.mag[4]>>

\* A faulty variant of Decode, against which the properties are sensitive: the bounds of an interval belong to it.
RECURSIVE DecodeInclusive(_, _, _)
DecodeInclusive(intervals, v, result) ==
    IF intervals = <<>> THEN result
    ELSE LET it == Head(intervals)
         IN  DecodeInclusive(Tail(intervals), v,
                    IF FLessEq(it.start, v) /\ FLessEq(v, it.end) THEN it.category
                    ELSE result)

\* A faulty variant of ReverseRaises, against which the properties are sensitive: an empty mapping is refused too.
ReverseRaisesOnEmpty(o) == ~o.fitted \/ o.intervals = <<>>

\* self.intervals.items() raises while self.intervals is None.
ReverseRaises(o) == ~o.fitted

\* The loop over self.intervals.items(): the last interval that strictly
\* contains the value, NaN when none does.
RECURSIVE Decode(_, _, _)
Decode(intervals, v, result) ==
    IF intervals = <<>> THEN result
    ELSE LET it == Head(intervals)
         IN  Decode(Tail(intervals), v,
                    IF FLess(it.start, v) /\ FLess(v, it.end) THEN it.category
                    ELSE result)

\* reverse_transform(data)
ReverseTransform(self, nums, chained, src) ==
    LET o == objs[self]
    IN  /\ self \in DOMAIN objs /\ o.alive
        /\ ret' = [NoCall EXCEPT !.op = "reverse_transform", !.self = self,
                                 !.input = nums, !.raised = ReverseRaises(o),
                                 !.chained = chained, !.src = src,
                                 !.out = IF ReverseRaises(o) THEN <<>>
                                         ELSE [i \in DOMAIN nums |->
                                                 Decode(o.intervals, Normalize(o, nums[i]), NaN)]]
        /\ UNCHANGED <<objs, MAPS, built, writer, column>>

\* -------------------------------------------------------------------- Spec
\* One transformer without anonymization: fit on the column at hand, then
\* transform and reverse_transform in any order.
MaxLen == 3
MaxIn == 1

Columns == ColumnsUpTo(MaxLen)

Inputs ==
    {[values |-> v, dtype |-> d] : v \in SeqsUpTo(Value, MaxIn), d \in Dtype}

\* The doubles reverse_transform is tried on: the interval bounds and means,
\* 0 and 1, and values out of [0, 1] on either side.
Probes(o) ==
    {Pos(Zero), Pos(One), Num(TRUE, One)}
    \cup {Pos(o.intervals[i].end) : i \in DOMAIN o.intervals}
    \cup {Pos(o.intervals[i].mean) : i \in DOMAIN o.intervals}
    \cup {Pos(FAdd(One, o.intervals[i].mean)) : i \in DOMAIN o.intervals}
    \cup {Num(TRUE, o.intervals[i].mean) : i \in DOMAIN o.intervals}

Init ==
    /\ \E add_noise \in BOOLEAN, clip \in BOOLEAN :
          objs = (1 :> NewObject(FALSE, add_noise, clip, 1))
    /\ MAPS = <<>>
    /\ built = <<>>
    /\ writer = <<>>
    /\ column \in Columns
    /\ ret = NoCall

\* What norm.rvs returns for each row (nothing is drawn without add_noise).
Draws(o, inp) ==
    {[i \in DOMAIN inp.values |->
        LET k == KeyIndex(o, inp.values[i], inp.dtype)
        IN  IF k = 0 \/ ~o.add_noise THEN Pos(Zero)
            ELSE Samples(o.intervals[k].mean, o.intervals[k].std)[pick[i]]] :
     pick \in [DOMAIN inp.values -> IF o.add_noise THEN 1..2 ELSE {1}]}

\* The builds differ only where a float64 column meets the two-category
\* shortcut.
CmpOutcomes(o, inp) ==
    IF o.fitted /\ Len(o.intervals) = 2 /\ WorkDtype(o, inp.values, inp.dtype) = "float64"
    THEN BOOLEAN ELSE {FALSE}

TransformCall ==
    /\ ret = NoCall
    /\ \E inp \in Inputs :
          \E cmpRaises \in CmpOutcomes(objs[1], inp), samples \in Draws(objs[1], inp) :
              Transform(1, inp, cmpRaises, samples)

ReverseCall ==
    /\ ret = NoCall
    /\ \E nums \in SeqsUpTo(Probes(objs[1]), MaxIn) :
        ReverseTransform(1, nums, FALSE, <<>>)

\* reverse_transform(transform(data))
RoundTrip ==
    /\ ret.op = "transform"
    /\ ~ret.raised
    /\ ReverseTransform(1, ret.out, TRUE, ret.input)

Next == FitCall \/ TransformCall \/ ReverseCall \/ RoundTrip \/ Return

Spec == Init /\ [][Next]_vars

\* ---------------------------------------------------------------- SpecAnon
\* One transformer, with or without anonymization: fit and transform.
InitAnon ==
    /\ \E anonymize \in BOOLEAN, add_noise \in BOOLEAN :
          objs = (1 :> NewObject(anonymize, add_noise, FALSE, 1))
    /\ MAPS = <<>>
    /\ built = <<>>
    /\ writer = <<>>
    /\ column \in Columns
    /\ ret = NoCall

NextAnon == FitCall \/ TransformCall \/ Return

SpecAnon == InitAnon /\ [][NextAnon]_vars

\* ---------------------------------------------------------------- SpecMaps
\* Several transformers come and go; id(self) is the address of the object,
\* free again once the object is gone. Nothing ever removes a key of MAPS.
NumObjs == 2
NumIds == 2
MaxMapLen == 1

Id == 1..NumIds
Live == {h \in DOMAIN objs : objs[h].alive}

InitMaps ==
    /\ objs = <<>>
    /\ MAPS = <<>>
    /\ built = <<>>
    /\ writer = <<>>
    /\ column = [values |-> <<>>, dtype |-> "object"]
    /\ ret = NoCall

\* CategoricalTransformer(anonymize=...): the next object, at a free address.
Create ==
    /\ ret = NoCall
    /\ Len(objs) < NumObjs
    /\ \E anonymize \in BOOLEAN, id \in Id \ {objs[h].addr : h \in Live} :
          objs' = Append(objs, NewObject(anonymize, FALSE, FALSE, id))
    /\ UNCHANGED <<MAPS, built, writer, column, ret>>

\* The last reference to an object goes: its address is free again.
Discard ==
    /\ ret = NoCall
    /\ \E h \in Live : objs' = [objs EXCEPT ![h].alive = FALSE]
    /\ UNCHANGED <<MAPS, built, writer, column, ret>>

\* copy.copy(obj), or a pickle round trip: another object with the same
\* attributes. What MAPS holds is no attribute and is not copied.
CopyObj ==
    /\ ret = NoCall
    /\ Len(objs) < NumObjs
    /\ \E h \in Live, id \in Id \ {objs[g].addr : g \in Live} :
          /\ objs' = Append(objs, [objs[h] EXCEPT !.addr = id])
          /\ built' = IF h \in DOMAIN built
                      THEN SetItem(built, Len(objs) + 1, built[h]) ELSE built
    /\ UNCHANGED <<MAPS, writer, column, ret>>

FitObj ==
    /\ ret = NoCall
    /\ \E h \in Live, col \in ColumnsUpTo(MaxMapLen) :
          \E fake_data \in FakerOutputs(objs[h], col) : Fit(h, col, fake_data)
    /\ UNCHANGED column

TransformObj ==
    /\ ret = NoCall
    /\ \E h \in Live, inp \in Inputs :
          \E cmpRaises \in CmpOutcomes(objs[h], inp), samples \in Draws(objs[h], inp) :
              Transform(h, inp, cmpRaises, samples)

NextMaps == Create \/ CopyObj \/ Discard \/ FitObj \/ TransformObj \/ Return

SpecMaps == InitMaps /\ [][NextMaps]_vars

\* ------------------------------------------------------- OneHotTransformer
\* data.value_counts().index: the non-null values by descending count, the
\* order among equal counts being left to the sort.
ValueCountOrders(values) ==
    LET S == Range(values) \ {NaN}
    IN  {s \in [1..Cardinality(S) -> S] :
            /\ Range(s) = S
            /\ \A i, j \in DOMAIN s :
                  i < j => CountOf(values, s[i]) >= CountOf(values, s[j])}

\* fit(data)
OneHotFit(self, col, order) ==
    /\ self \in DOMAIN objs
    /\ order \in ValueCountOrders(col.values)
    /\ objs' = [objs EXCEPT ![self] = [@ EXCEPT !.fitted = TRUE, !.dummies = order]]
    /\ ret' = [NoCall EXCEPT !.op = "fit", !.self = self, !.input = col.values,
                             !.dtype = col.dtype]
    /\ UNCHANGED <<MAPS, built, writer>>

\* One row of pd.get_dummies(data).reindex(columns=self.dummies, fill_value=0).
OneHotRow(dummies, value) ==
    [j \in DOMAIN dummies |-> IF value # NaN /\ value = dummies[j] THEN 1 ELSE 0]

\* transform(data)
OneHotTransform(self, inp) ==
    LET o == objs[self]
    IN  /\ self \in DOMAIN objs
        /\ ret' = [NoCall EXCEPT !.op = "transform", !.self = self,
                                 !.input = inp.values, !.dtype = inp.dtype,
                                 !.raised = ~o.fitted,
                                 !.out = IF ~o.fitted THEN <<>>
                                         ELSE [i \in DOMAIN inp.values |->
                                                 OneHotRow(o.dummies, inp.values[i])]]
        /\ UNCHANGED <<objs, MAPS, built, writer, column>>

\* np.argmax over one row: the first position (from 0) of its maximum.
ArgMax(row) ==
    (CHOOSE j \in DOMAIN row :
        /\ \A k \in DOMAIN row : row[k] <= row[j]
        /\ \A k \in DOMAIN row : k < j => row[k] < row[j]) - 1

\* pd.Series(indices).map(self.dummies): position to category.
DummyAt(dummies, index) ==
    IF index + 1 \in DOMAIN dummies THEN dummies[index + 1] ELSE NaN

\* reverse_transform(data): np.argmax raises on rows without columns.
OneHotReverse(self, rows, chained, src) ==
    LET o      == objs[self]
        raised == ~o.fitted \/ \E i \in DOMAIN rows : rows[i] = <<>>
    IN  /\ self \in DOMAIN objs
        /\ ret' = [NoCall EXCEPT !.op = "reverse_transform", !.self = self,
                                 !.input = rows, !.raised = raised,
                                 !.chained = chained, !.src = src,
                                 !.out = IF raised THEN <<>>
                                         ELSE [i \in DOMAIN rows |->
                                                 DummyAt(o.dummies, ArgMax(rows[i]))]]
        /\ UNCHANGED <<objs, MAPS, built, writer, column>>

\* -------------------------------------------------------------- SpecOneHot
InitOneHot ==
    /\ objs = <<[alive |-> TRUE, fitted |-> FALSE, dummies |-> <<>>]>>
    /\ MAPS = <<>>
    /\ built = <<>>
    /\ writer = <<>>
    /\ column \in Columns
    /\ ret = NoCall

OneHotFitCall ==
    /\ ret = NoCall
    /\ \E order \in ValueCountOrders(column.values) : OneHotFit(1, column, order)
    /\ UNCHANGED column

OneHotTransformCall ==
    /\ ret = NoCall
    /\ \E inp \in Inputs : OneHotTransform(1, inp)

\* Arrays of 0/1 as wide as the columns fit recorded.
OneHotReverseCall ==
    /\ ret = NoCall
    /\ \E rows \in SeqsUpTo([DOMAIN objs[1].dummies -> 0..1], MaxIn) :
          OneHotReverse(1, rows, FALSE, <<>>)

OneHotRoundTrip ==
    /\ ret.op = "transform"
    /\ ~ret.raised
    /\ OneHotReverse(1, ret.out, TRUE, ret.input)

NextOneHot ==
    OneHotFitCall \/ OneHotTransformCall \/ OneHotReverseCall \/ OneHotRoundTrip \/ Return

SpecOneHot == InitOneHot /\ [][NextOneHot]_vars

\* ============================================================== properties
TheObj == objs[1]
Ivs == objs[1].intervals

Inside(it, v) == FLess(it.start, v) /\ FLess(v, it.end)

\* |x - y| <= tol
Within(x, y, tol) == FLessEq(x, AddExact(y, tol)) /\ FLessEq(y, AddExact(x, tol))

\* k * 2^-53
Ulps(k) == Carry(<<0, 0, 0, k * 2^6>>)

RECURSIVE CumCount(_, _, _)
CumCount(I, data, i) ==
    IF i = 0 THEN 0 ELSE CountOf(data, I[i].category) + CumCount(I, data, i - 1)

FittedNonEmpty == ret.op = "fit" /\ ret.out # <<>>

OneIntervalPerCategory(I, data) ==
    /\ Len(I) = Cardinality(Range(data))
    /\ {I[i].category : i \in DOMAIN I} = Range(data)

Contiguous(I) ==
    /\ I[1].start = Zero
    /\ \A i \in 1..(Len(I) - 1) : I[i].end = I[i + 1].start

\* Descending count; equal counts by descending value, the null last.
FrequencyOrder(I, data) ==
    \A i \in 1..(Len(I) - 1) :
        LET a == I[i].category
            b == I[i + 1].category
        IN  \/ CountOf(data, a) > CountOf(data, b)
            \/ /\ CountOf(data, a) = CountOf(data, b)
               /\ (b = NaN \/ (a # NaN /\ a > b))

\* C1 as stated: after fit on a non-empty column the stored intervals
\* partition [0,1] exactly: one per category, the first starting at 0, each
\* ending where the next starts, each of positive length count/total (read
\* here up to the rounding of the division), the last ending at 1, in
\* descending order of count (ties by descending value).
C1_ExactPartition ==
    FittedNonEmpty =>
        LET n == Len(ret.out) IN
        /\ OneIntervalPerCategory(Ivs, ret.out)
        /\ Contiguous(Ivs)
        /\ \A i \in DOMAIN Ivs :
              /\ FLess(Ivs[i].start, Ivs[i].end)
              /\ Within(ScaleExact(Ivs[i].end, n),
                        FromInt(CumCount(Ivs, ret.out, i)), Ulps(n * i))
        /\ Ivs[Len(Ivs)].end = One
        /\ FrequencyOrder(Ivs, ret.out)

\* C1 amended: the same partition up to the rounding of the doubles: every
\* interval has positive length and the i-th ends within i * 2^-53 of
\* (count of the first i categories) / total, so the last of k intervals
\* ends within k * 2^-53 of 1.
C1_PartitionUpToRounding ==
    FittedNonEmpty =>
        LET n == Len(ret.out) IN
        /\ OneIntervalPerCategory(Ivs, ret.out)
        /\ Contiguous(Ivs)
        /\ \A i \in DOMAIN Ivs :
              /\ FLess(Ivs[i].start, Ivs[i].end)
              /\ Within(ScaleExact(Ivs[i].end, n),
                        FromInt(CumCount(Ivs, ret.out, i)), Ulps(n * i))
        /\ Within(Ivs[Len(Ivs)].end, One, Ulps(Len(Ivs)))
        /\ FrequencyOrder(Ivs, ret.out)

\* A fit on three categories whose last interval ends short of 1.
C1_Witness ==
    /\ FittedNonEmpty
    /\ Len(Ivs) = 3
    /\ Ivs[3].end # One

\* ------------------------------------------------------------ Spec: C2-C10
Fitted == TheObj.fitted
Called(op) == ret.op = op /\ ret.self = 1
FitValues == Range(column.values)

\* transform([c]) for one category c seen by fit, noise disabled.
TransformOfSeen ==
    /\ Called("transform") /\ Fitted /\ ~TheObj.add_noise
    /\ Len(ret.input) = 1 /\ ret.input[1] \in FitValues

\* reverse_transform(transform([c])) for one category c seen by fit.
RoundTripOfSeen ==
    /\ Called("reverse_transform") /\ ret.chained /\ Fitted /\ ~TheObj.add_noise
    /\ Len(ret.src) = 1 /\ ret.src[1] \in FitValues

\* C2 as stated: after fit, for every category c seen by fit (the null
\* included) and noise disabled, transform([c]) returns and
\* reverse_transform of what it returned is [c]; so too when fit saw
\* exactly two categories.
C2_RoundTrip ==
    /\ TransformOfSeen => ~ret.raised
    /\ RoundTripOfSeen => ~ret.raised /\ ret.out = ret.src

\* C3 as stated: with exactly two categories in the mapping, transform
\* returns 1 for a value equal to the first category of the mapping and 0
\* for any other.
C3_BinaryShortcut ==
    (Called("transform") /\ Fitted /\ Len(Ivs) = 2) =>
        /\ ~ret.raised
        /\ ret.out = [i \in DOMAIN ret.input |->
                        IF ret.input[i] = Ivs[1].category THEN Pos(One) ELSE Pos(Zero)]

Containing(v) == {j \in DOMAIN Ivs : Inside(Ivs[j], v)}
OnBoundary(v) == \E j \in DOMAIN Ivs : v = Ivs[j].start \/ v = Ivs[j].end

\* C4 as stated: reverse_transform returns, row by row, category c exactly
\* when the normalized value lies strictly inside c's interval; at most one
\* interval matches; a normalized value on a bound of any interval gives the
\* null "no match"; the output is as long as the input.
C4_StrictMembership ==
    (Called("reverse_transform") /\ Fitted) =>
        /\ ~ret.raised
        /\ Len(ret.out) = Len(ret.input)
        /\ \A i \in DOMAIN ret.input :
              LET v == Normalize(TheObj, ret.input[i]) IN
              /\ \A j \in DOMAIN Ivs : ret.out[i] = Ivs[j].category <=> Inside(Ivs[j], v)
              /\ Cardinality(Containing(v)) <= 1
              /\ OnBoundary(v) => ret.out[i] = NaN

\* C4 amended: as stated for every category but the null. A row is null
\* when its normalized value lies in no interval or in the interval of the
\* null category: the two cannot be told apart in the output.
C4_StrictMembershipNonNull ==
    (Called("reverse_transform") /\ Fitted) =>
        /\ ~ret.raised
        /\ Len(ret.out) = Len(ret.input)
        /\ \A i \in DOMAIN ret.input :
              LET v == Normalize(TheObj, ret.input[i]) IN
              /\ \A j \in DOMAIN Ivs :
                    Ivs[j].category # NaN =>
                        (ret.out[i] = Ivs[j].category <=> Inside(Ivs[j], v))
              /\ ret.out[i] = NaN <=>
                    \A j \in Containing(v) : Ivs[j].category = NaN
              /\ Cardinality(Containing(v)) <= 1
              /\ OnBoundary(v) => ret.out[i] = NaN

\* A value on the bound between two intervals decoded to the null, and a
\* value inside an interval decoded to its (non-null) category.
C4_Witness ==
    /\ Called("reverse_transform") /\ Fitted /\ Len(Ivs) >= 2
    /\ \E i \in DOMAIN ret.input :
          /\ Normalize(TheObj, ret.input[i]) = Ivs[1].end
          /\ ret.out[i] = NaN

\* C6 as stated: transform and reverse_transform raise when called before
\* any fit, and when called on a non-empty input after a fit on an empty
\* column.
C6_NoMappingRaises ==
    (/\ Called("transform") \/ Called("reverse_transform")
     /\ ~Fitted \/ (Ivs = <<>> /\ ret.input # <<>>)) => ret.raised

\* C6 amended: both raise before any fit; after a fit on an empty column
\* transform raises on a non-empty input, and reverse_transform does not
\* raise: it returns a null for every row.
C6_NoMappingAmended ==
    /\ (/\ Called("transform") \/ Called("reverse_transform")
        /\ ~Fitted) => ret.raised
    /\ (Called("transform") /\ Fitted /\ Ivs = <<>> /\ ret.input # <<>>) => ret.raised
    /\ (Called("reverse_transform") /\ Fitted /\ Ivs = <<>>) =>
          /\ ~ret.raised
          /\ ret.out = [i \in DOMAIN ret.input |-> NaN]

\* reverse_transform of a non-empty input after a fit on an empty column.
C6_Witness ==
    /\ Called("reverse_transform") /\ Fitted /\ Ivs = <<>> /\ ret.input # <<>>
    /\ ~ret.raised

IntervalOf(c) == Ivs[CHOOSE j \in DOMAIN Ivs : Ivs[j].category = c]

\* C10 as stated: noise and anonymization disabled, either clip setting, a
\* mapping of one or of three or more categories: transform([c]) of a
\* category c seen by fit is c's interval mean, which lies strictly inside
\* c's interval and inside (0,1) and which _normalize leaves unchanged, and
\* reverse_transform of it is [c].
C10_MeanRoundTrip ==
    /\ (TransformOfSeen /\ ~TheObj.anonymize /\ Len(Ivs) # 2) =>
          LET it == IntervalOf(ret.input[1]) IN
          /\ ~ret.raised
          /\ ret.out = <<Pos(it.mean)>>
          /\ Inside(it, it.mean)
          /\ FLess(Zero, it.mean) /\ FLess(it.mean, One)
          /\ Normalize(TheObj, Pos(it.mean)) = it.mean
    /\ (RoundTripOfSeen /\ ~TheObj.anonymize /\ Len(Ivs) # 2) =>
          ~ret.raised /\ ret.out = ret.src

\* ---------------------------------------------------------- SpecAnon: C5, C8
UnseenAt(i) == ret.input[i] \notin FitValues

\* C5 as stated: after any fit, transform of a value fit never saw raises
\* and returns nothing, with anonymization on or off and also when the
\* mapping has exactly two categories.
C5_UnseenRaises ==
    (Called("transform") /\ Fitted /\ \E i \in DOMAIN ret.input : UnseenAt(i)) =>
        ret.raised /\ ret.out = <<>>

\* C5 amended: so it is, with anonymization on or off, when the mapping
\* does not have exactly two categories. With exactly two, transform does
\* not look the value up: when it returns, the row of an unseen value is 0.
C5_UnseenRaisesUnlessTwo ==
    (Called("transform") /\ Fitted /\ \E i \in DOMAIN ret.input : UnseenAt(i)) =>
        /\ Len(Ivs) # 2 => ret.raised /\ ret.out = <<>>
        /\ (Len(Ivs) = 2 /\ ~ret.raised) =>
              \A i \in DOMAIN ret.input : UnseenAt(i) => ret.out[i] = Pos(Zero)

\* An unseen value raising under anonymization, the mapping holding one
\* category.
C5_Witness ==
    /\ Called("transform") /\ Fitted /\ TheObj.anonymize /\ Len(Ivs) = 1
    /\ \E i \in DOMAIN ret.input : UnseenAt(i)
    /\ ret.raised

\* C8 as stated: with anonymization the map fit builds has one entry per
\* distinct category of the column and is one-to-one whatever the faker
\* returns, so there are as many intervals as distinct categories.
C8_OneToOne ==
    (Called("fit") /\ TheObj.anonymize) =>
        /\ DOMAIN built[1] = FitValues
        /\ \A a, b \in FitValues : a # b => built[1][a] # built[1][b]
        /\ Len(Ivs) = Cardinality(FitValues)

\* ------------------------------------------------------------ SpecMaps: C7
\* C7 as stated: a transform on an anonymizing transformer reads the map
\* that transformer's own last fit built, never one another transformer
\* wrote.
C7_OwnMapOnly ==
    (ret.op = "transform" /\ objs[ret.self].anonymize) =>
        LET id == objs[ret.self].addr IN
        /\ id \in DOMAIN MAPS => writer[id] = ret.self
        /\ ret.self \in DOMAIN built => (id \in DOMAIN MAPS /\ MAPS[id] = built[ret.self])

\* ---------------------------------------------------------- SpecOneHot: C9
Dummies == objs[1].dummies

SingleOneAt(row, c) ==
    /\ \E j \in DOMAIN Dummies : Dummies[j] = c
    /\ \A j \in DOMAIN row : row[j] = (IF Dummies[j] = c THEN 1 ELSE 0)

ColumnsByFrequency ==
    \A i, j \in DOMAIN Dummies :
        i < j => CountOf(column.values, Dummies[i]) >= CountOf(column.values, Dummies[j])

OneHotSymmetry(seen) ==
    /\ Fitted => ColumnsByFrequency
    /\ (Called("transform") /\ Fitted) =>
          /\ ~ret.raised
          /\ Len(ret.out) = Len(ret.input)
          /\ \A i \in DOMAIN ret.input :
                /\ Len(ret.out[i]) = Len(Dummies)
                /\ ret.input[i] \in seen => SingleOneAt(ret.out[i], ret.input[i])
                /\ ret.input[i] \notin FitValues =>
                      \A j \in DOMAIN ret.out[i] : ret.out[i][j] = 0
    /\ (Called("reverse_transform") /\ ret.chained /\ Fitted
            /\ Len(ret.src) = 1 /\ ret.src[1] \in seen) =>
          ~ret.raised /\ ret.out = ret.src

\* C9 as stated: after OneHotTransformer.fit every category of the fit data
\* round-trips, its transform row has a single 1, in that category's column
\* (columns by descending fit-time frequency), and a value fit never saw
\* gives an all-zero row.
C9_OneHotSymmetry == OneHotSymmetry(FitValues)

\* C9 amended: so it is for every non-null category of the fit data. The
\* null has no column: its row is all-zero, seen by fit or not.
C9_OneHotSymmetryNonNull ==
    /\ OneHotSymmetry(FitValues \ {NaN})
    /\ (Called("transform") /\ Fitted) =>
          \A i \in DOMAIN ret.input :
              ret.input[i] = NaN => \A j \in DOMAIN ret.out[i] : ret.out[i][j] = 0

\* The round trip of the less frequent of two categories.
C9_Witness ==
    /\ Called("reverse_transform") /\ ret.chained /\ Fitted
    /\ Len(Dummies) = 2
    /\ ret.src = <<Dummies[2]>>
    /\ ret.out = ret.src

====
